---- MODULE Spec2Model ----
(***************************************************************************)
(* Citation and bibliography resolution of src/src/scripts/citations.py.   *)
(*                                                                         *)
(* The document is the list of its <span class="citation"> elements in     *)
(* document order, each with its parent span (0: none) and the content of  *)
(* its data-src attribute.  The style engine (citeproc) is an external     *)
(* library: the model keeps of it only what the calls of citations.py      *)
(* read and write (the keys of the source, the registered citations, the   *)
(* keys the bibliography lists).                                           *)
(***************************************************************************)
EXTENDS Integers, Sequences, FiniteSets, TLC

\* Bounds of the model.
MaxNodes == 2      \* citation spans in a document
MaxRefs == 3       \* citationItems in a document, all groups together
MaxCalls == 2      \* calls a client of the public functions makes (ApiSpec)

\* Values the inputs are drawn from.
Keys == {"a", "b"}
NoId == "<no id>"                 \* marks an itemData dict without "id"
Styles == {"harvard1", "nosuchstyle"}
KnownStyles == {"harvard1"}       \* the styles citeproc ships a .csl file for
NoError == "none"

\* class CitationItem: only itemData is read by the code (id and uris never).
CitationItems == {[itemData |-> [id |-> k]] : k \in Keys \cup {NoId}}

\* The plainCitation the author's word processor captured for the marker at
\* position n of the document.
PlainCitation(n) == "plain" \o ToString(n)

\* class Citation: citationItems and properties.plainCitation are read.
Citation(its, n) ==
    [citationItems |-> its, properties |-> [plainCitation |-> PlainCitation(n)]]

NoCitation == [citationItems |-> <<>>, properties |-> [plainCitation |-> ""]]

\* What a span's data-src attribute can be: absent; present without the prefix
\* "data:application/json;base64,"; with the prefix and a payload that
\* base64/JSON decoding rejects; with the prefix and the encoding of a group.
Kinds == {"absent", "other", "broken", "json"}

DataSrc(kind, items, n) ==
    [present |-> kind # "absent",
     prefix  |-> kind \in {"broken", "json"},
     decodes |-> kind = "json",
     json    |-> IF kind = "json" THEN Citation(items, n) ELSE NoCitation]

RECURSIVE SumTo(_, _)
SumTo(len, n) == IF n = 0 THEN 0 ELSE len[n] + SumTo(len, n - 1)

\* The number of items of each of m groups: only a span that holds a group
\* has items, and the document holds at most MaxRefs of them.
Lengths(m, kind) ==
    {len \in [1..m -> 0..MaxRefs] :
        /\ SumTo(len, m) <= MaxRefs
        /\ \A n \in 1..m : kind[n] # "json" => len[n] = 0}

\* The items of group n, cut from the items of all groups one after the other.
ItemsOf(len, flat, n) == SubSeq(flat, SumTo(len, n - 1) + 1, SumTo(len, n))

RECURSIVE IsAncestorOrSelf(_, _, _)
IsAncestorOrSelf(par, a, n) ==
    \/ a = n
    \/ par[n] # 0 /\ IsAncestorOrSelf(par, a, par[n])

\* Spans are numbered in document order (depth first), so the parent of span
\* n is an ancestor-or-self of span n-1, or n is a top-level span.
Shapes(m) ==
    {par \in [1..m -> 0..(m - 1)] :
        \A n \in 1..m :
            /\ par[n] < n
            /\ par[n] # 0 => IsAncestorOrSelf(par, par[n], n - 1)}

Document(par, kind, len, flat) ==
    [n \in DOMAIN par |->
        [parent |-> par[n],
         attrs  |-> DataSrc(kind[n], ItemsOf(len, flat, n), n)]]

VARIABLES
    doc,                 \* the input document (never written)
    citation_style,      \* the citation_style argument
    strict_source,       \* does CiteProcJSON raise on a record without "id"?
    html_soup,           \* per span: replaced by a <cite>? with which string
    appended,            \* the elements appended to the end of the tree
    pc,                  \* position in add_citations_and_bibliography
    error,               \* the exception that ended the run
    warnings,            \* what _warn printed
    citations,           \* line 41
    json_data,           \* line 42
    bib_source,          \* line 43: the keys of the CiteProcJSON source
    bibliography,        \* line 45: the CitationStylesBibliography
    citeproc_citations,  \* line 48
    reg,                 \* citations the loop of line 49 has registered
    spans,               \* the result set of line 120
    s,                   \* spans the loop of line 120 has visited
    i,                   \* line 111
    consumed,            \* the (span, index) pairs line 122-130 has used
    run,                 \* which conversion of the document this is
    out1,                \* what the first conversion returned
    calls                \* public calls made by the client (ApiSpec)

\* What a conversion is given; no step writes it.
inputs == <<doc, citation_style, strict_source>>

vars == <<doc, citation_style, strict_source, html_soup, appended, pc, error, warnings,
          citations, json_data, bib_source, bibliography, citeproc_citations,
          reg, spans, s, i, consumed, run, out1, calls>>


(***************************************************************************)
(* The tree.                                                               *)
(***************************************************************************)
Untouched == [replaced |-> FALSE, string |-> ""]

FreshSoup(d) == [n \in DOMAIN d |-> Untouched]

\* A span is in the tree while none of its ancestors has been replaced
\* (replace_with takes the replaced span, and what it holds, out of the tree).
RECURSIVE Attached(_, _, _)
Attached(d, soup, n) ==
    \/ d[n].parent = 0
    \/ /\ ~soup[d[n].parent].replaced
       /\ Attached(d, soup, d[n].parent)

\* _find_all_citation_spans: the spans of the tree, in document order.
FindAllSpansTopLevel(d, soup) ==
    SelectSeq([n \in DOMAIN d |-> n],
              LAMBDA n : ~soup[n].replaced /\ d[n].parent = 0)

find_all_citation_spans(d, soup) ==
    SelectSeq([n \in DOMAIN d |-> n],
              LAMBDA n : ~soup[n].replaced /\ Attached(d, soup, n))

\* _has_inner_json_data: span.attrs["data-src"] raises KeyError without the
\* attribute; with it, the prefix test.
has_inner_json_data_raises(attrs) == ~attrs.present

has_inner_json_data(attrs) == attrs.prefix

(***************************************************************************)
(* extract_citations.                                                      *)
(***************************************************************************)
RECURSIVE ExtractLoop(_, _, _)
ExtractLoop(d, todo, acc) ==
    IF todo = <<>> THEN [error |-> NoError, citations |-> acc]
    ELSE LET attrs == d[Head(todo)].attrs IN
         IF has_inner_json_data_raises(attrs)
         THEN [error |-> "KeyError: data-src", citations |-> acc]
         ELSE IF ~has_inner_json_data(attrs)
         THEN ExtractLoop(d, Tail(todo), acc)
         ELSE IF ~attrs.decodes
         THEN [error |-> "DecodeError", citations |-> acc]
         ELSE ExtractLoop(d, Tail(todo), Append(acc, attrs.json))

extract_citations(d, soup) == ExtractLoop(d, find_all_citation_spans(d, soup), <<>>)

(***************************************************************************)
(* prepare_citations_for_citeproc: the itemData of every item of every     *)
(* group, appended in turn.                                                *)
(***************************************************************************)
RECURSIVE prepare_citations_for_citeproc(_)
prepare_citations_for_citeproc(cs) ==
    IF cs = <<>> THEN <<>>
    ELSE [k \in 1..Len(Head(cs).citationItems) |->
              Head(cs).citationItems[k].itemData]
         \o prepare_citations_for_citeproc(Tail(cs))

(***************************************************************************)
(* create_citations_to_register: per group the keys str(itemData["id"]);   *)
(* itemData["id"] raises KeyError when the dict has no "id".               *)
(***************************************************************************)
HasIdAlways(itemData) == TRUE

HasId(itemData) == itemData.id # NoId

create_citations_raises(cs) ==
    \E g \in 1..Len(cs) : \E k \in 1..Len(cs[g].citationItems) :
        ~HasId(cs[g].citationItems[k].itemData)

create_citations_to_register(cs) ==
    [g \in 1..Len(cs) |->
        [k \in 1..Len(cs[g].citationItems) |-> cs[g].citationItems[k].itemData.id]]

(***************************************************************************)
(* The style engine, as the calls of citations.py use it.                  *)
(***************************************************************************)
\* CiteProcJSON(json_data): the source holds the records under their ids.
CiteProcJSON(records) ==
    {records[k].id : k \in DOMAIN records} \ {NoId}

\* A record without "id": the library is not part of this repository and may
\* raise or go on (strict says which); it does the same at every call.
CiteProcJSONRaises(records, strict) ==
    strict /\ \E k \in DOMAIN records : records[k].id = NoId

\* CitationStylesStyle(citation_style, validate=False) raises for a style
\* citeproc has no file for.
StyleAlwaysFound(style) == FALSE

CitationStylesStyleRaises(style) == style \notin KnownStyles

\* CitationStylesBibliography(style, source, formatter): nothing registered.
CitationStylesBibliography(source) ==
    [source |-> source, keys |-> <<>>, log |-> <<>>]

NoBibliography == CitationStylesBibliography({})

RECURSIVE AddKeys(_, _, _)
AddKeys(keys, source, cites) ==
    IF cites = <<>> THEN keys
    ELSE LET k == Head(cites)
             seen == \E j \in DOMAIN keys : keys[j] = k
         IN AddKeys(IF k \in source /\ ~seen THEN Append(keys, k) ELSE keys,
                    source, Tail(cites))

\* bibliography.register(citation): the citation joins the log, its keys that
\* the source holds join the keys of the bibliography.
register(bib, citation) ==
    [bib EXCEPT !.log = Append(@, citation),
                !.keys = AddKeys(@, bib.source, citation)]

\* bib.bibliography(): one rendered entry per key, in the engine's order.
bibliography_entries(bib) ==
    [k \in 1..Len(bib.keys) |-> "entry " \o bib.keys[k]]


(***************************************************************************)
(* add_citations.                                                          *)
(***************************************************************************)
StartIndexStale(prev) == prev

\* line 111: i = 0
StartIndex(prev) == 0

\* One iteration of the loop of lines 120-131 on `span`; st holds the tree,
\* i, what was consumed so far and the exception raised, if any.
RewriteSpan(d, cs, st, span) ==
    IF st.error # NoError THEN st
    ELSE IF has_inner_json_data_raises(d[span].attrs)
    THEN [st EXCEPT !.error = "KeyError: data-src"]
    ELSE IF ~has_inner_json_data(d[span].attrs) THEN st
    ELSE IF st.i >= Len(cs)
    THEN [st EXCEPT !.error = "IndexError"]
    ELSE [st EXCEPT
            !.soup[span] = [replaced |-> TRUE,
                            string |-> cs[st.i + 1].properties.plainCitation],
            !.consumed = Append(@, [span |-> span, index |-> st.i + 1]),
            !.i = @ + 1]

RECURSIVE RewriteLoop(_, _, _, _)
RewriteLoop(d, cs, st, todo) ==
    IF todo = <<>> THEN st
    ELSE RewriteLoop(d, cs, RewriteSpan(d, cs, st, Head(todo)), Tail(todo))

\* The whole function, as a caller of add_citations sees it.
add_citations(d, soup, cs, prev) ==
    RewriteLoop(d, cs,
                [soup |-> soup, i |-> StartIndex(prev), consumed |-> <<>>,
                 error |-> NoError],
                find_all_citation_spans(d, soup))

(***************************************************************************)
(* add_bibliography.                                                       *)
(***************************************************************************)
Container(entries) ==
    [name |-> "div",
     h1   |-> "Bibliography",
     ol   |-> [k \in 1..Len(entries) |-> "<small>" \o entries[k] \o "</small>"]]

AddBibliographyUnguarded(app, entries) == Append(app, Container(entries))

add_bibliography(app, entries) ==
    IF entries = <<>> THEN app ELSE Append(app, Container(entries))

(***************************************************************************)
(* add_citations_and_bibliography, one step per call or loop iteration.    *)
(***************************************************************************)
NoOutput == [html_soup |-> <<>>, appended |-> <<>>, error |-> "not run"]

Output == [html_soup |-> html_soup, appended |-> appended, error |-> error]

Init ==
    /\ \E m \in 0..MaxNodes :
         \E par \in Shapes(m), kind \in [1..m -> Kinds] :
            \E len \in Lengths(m, kind) :
               \E flat \in [1..SumTo(len, m) -> CitationItems] :
                  doc = Document(par, kind, len, flat)
    /\ citation_style \in Styles
    /\ strict_source \in BOOLEAN
    /\ html_soup = FreshSoup(doc)
    /\ appended = <<>>
    /\ pc = "extract"
    /\ error = NoError
    /\ warnings = <<>>
    /\ citations = <<>>
    /\ json_data = <<>>
    /\ bib_source = {}
    /\ bibliography = NoBibliography
    /\ citeproc_citations = <<>>
    /\ reg = 0
    /\ spans = <<>>
    /\ s = 0
    /\ i = 0
    /\ consumed = <<>>
    /\ run = 1
    /\ out1 = NoOutput
    /\ calls = 0

\* line 41
Extract ==
    /\ pc = "extract"
    /\ LET r == extract_citations(doc, html_soup) IN
        IF r.error # NoError
        THEN /\ pc' = "failed"
             /\ error' = r.error
             /\ UNCHANGED citations
        ELSE /\ pc' = "prepare"
             /\ citations' = r.citations
             /\ UNCHANGED error
    /\ UNCHANGED <<inputs, html_soup, appended, warnings, json_data,
                   bib_source, bibliography, citeproc_citations, reg, spans, s,
                   i, consumed, run, out1, calls>>

\* line 42
Prepare ==
    /\ pc = "prepare"
    /\ json_data' = prepare_citations_for_citeproc(citations)
    /\ pc' = "source"
    /\ UNCHANGED <<inputs, html_soup, appended, error, warnings,
                   citations, bib_source, bibliography, citeproc_citations, reg,
                   spans, s, i, consumed, run, out1, calls>>

\* line 43
BuildSource ==
    /\ pc = "source"
    /\ IF CiteProcJSONRaises(json_data, strict_source)
       THEN /\ pc' = "failed"
            /\ error' = "SourceError"
            /\ UNCHANGED bib_source
       ELSE /\ pc' = "style"
            /\ bib_source' = CiteProcJSON(json_data)
            /\ UNCHANGED error
    /\ UNCHANGED <<inputs, html_soup, appended, warnings,
                   citations, json_data, bibliography, citeproc_citations, reg,
                   spans, s, i, consumed, run, out1, calls>>

\* line 44
BuildStyle ==
    /\ pc = "style"
    /\ IF CitationStylesStyleRaises(citation_style)
       THEN pc' = "failed" /\ error' = "StyleNotFound"
       ELSE pc' = "bibliography" /\ UNCHANGED error
    /\ UNCHANGED <<inputs, html_soup, appended, warnings,
                   citations, json_data, bib_source, bibliography,
                   citeproc_citations, reg, spans, s, i, consumed, run, out1,
                   calls>>

\* lines 45-47
BuildBibliography ==
    /\ pc = "bibliography"
    /\ bibliography' = CitationStylesBibliography(bib_source)
    /\ pc' = "create"
    /\ UNCHANGED <<inputs, html_soup, appended, error, warnings,
                   citations, json_data, bib_source, citeproc_citations, reg,
                   spans, s, i, consumed, run, out1, calls>>

\* line 48, and the loop of line 49 starts
CreateCitations ==
    /\ pc = "create"
    /\ IF create_citations_raises(citations)
       THEN /\ pc' = "failed"
            /\ error' = "KeyError: id"
            /\ UNCHANGED <<citeproc_citations, reg>>
       ELSE /\ pc' = "register"
            /\ citeproc_citations' = create_citations_to_register(citations)
            /\ reg' = 0
            /\ UNCHANGED error
    /\ UNCHANGED <<inputs, html_soup, appended, warnings,
                   citations, json_data, bib_source, bibliography, spans, s, i,
                   consumed, run, out1, calls>>

RegisterLoopEndsEarly(k, cs) == k >= 1 \/ k = Len(cs)

\* the loop of line 49 has run out of citations
RegisterLoopDone(k, cs) == k = Len(cs)

\* lines 49-50, one iteration
Register ==
    /\ pc = "register"
    /\ ~RegisterLoopDone(reg, citeproc_citations)
    /\ bibliography' = register(bibliography, citeproc_citations[reg + 1])
    /\ reg' = reg + 1
    /\ UNCHANGED <<inputs, html_soup, appended, pc, error,
                   warnings, citations, json_data, bib_source,
                   citeproc_citations, spans, s, i, consumed, run, out1, calls>>

\* line 51: add_citations is entered (lines 111 and 120)
AddCitationsBegin ==
    /\ pc = "register"
    /\ RegisterLoopDone(reg, citeproc_citations)
    /\ i' = StartIndex(i)
    /\ spans' = find_all_citation_spans(doc, html_soup)
    /\ s' = 0
    /\ consumed' = <<>>
    /\ pc' = "rewrite"
    /\ UNCHANGED <<inputs, html_soup, appended, error, warnings,
                   citations, json_data, bib_source, bibliography,
                   citeproc_citations, reg, run, out1, calls>>

\* lines 120-131, one iteration
AddCitationsStep ==
    /\ pc = "rewrite"
    /\ s < Len(spans)
    /\ LET st == RewriteSpan(doc, citations,
                             [soup |-> html_soup, i |-> i,
                              consumed |-> consumed, error |-> NoError],
                             spans[s + 1]) IN
        /\ html_soup' = st.soup
        /\ i' = st.i
        /\ consumed' = st.consumed
        /\ error' = st.error
        /\ pc' = IF st.error # NoError THEN "failed" ELSE "rewrite"
    /\ s' = s + 1
    /\ UNCHANGED <<inputs, appended, warnings, citations,
                   json_data, bib_source, bibliography, citeproc_citations, reg,
                   spans, run, out1, calls>>

\* line 132 returns; line 54: add_bibliography; line 55
AddBibliography ==
    /\ pc = "rewrite"
    /\ s = Len(spans)
    /\ appended' = add_bibliography(appended, bibliography_entries(bibliography))
    /\ pc' = "done"
    /\ UNCHANGED <<inputs, html_soup, error, warnings, citations,
                   json_data, bib_source, bibliography, citeproc_citations, reg,
                   spans, s, i, consumed, run, out1, calls>>

Next ==
    \/ Extract
    \/ Prepare
    \/ BuildSource
    \/ BuildStyle
    \/ BuildBibliography
    \/ CreateCitations
    \/ Register
    \/ AddCitationsBegin
    \/ AddCitationsStep
    \/ AddBibliography

Spec == Init /\ [][Next]_vars


(***************************************************************************)
(* A second conversion of the same input: the caller passes a fresh copy   *)
(* of the document; the locals of the first call are whatever they were.   *)
(***************************************************************************)
Restart ==
    /\ pc \in {"done", "failed"}
    /\ run = 1
    /\ run' = 2
    /\ out1' = Output
    /\ html_soup' = FreshSoup(doc)
    /\ appended' = <<>>
    /\ error' = NoError
    /\ pc' = "extract"
    /\ UNCHANGED <<inputs, warnings, citations, json_data,
                   bib_source, bibliography, citeproc_citations, reg, spans, s,
                   i, consumed, calls>>

NextTwice == Next \/ Restart

SpecTwice == Init /\ [][NextTwice]_vars

(***************************************************************************)
(* The public functions called by a client of its own: extract_citations,  *)
(* then a bibliography over a source the client built, then                *)
(* bibliography.register, add_citations and add_bibliography in any order. *)
(***************************************************************************)
ApiSetup ==
    /\ pc = "prepare"
    /\ IF CitationStylesStyleRaises(citation_style)
       THEN /\ pc' = "failed"
            /\ error' = "StyleNotFound"
            /\ UNCHANGED <<bib_source, bibliography, citeproc_citations, reg>>
       ELSE IF create_citations_raises(citations)
       THEN /\ pc' = "failed"
            /\ error' = "KeyError: id"
            /\ UNCHANGED <<bib_source, bibliography, citeproc_citations, reg>>
       ELSE \E source \in SUBSET Keys :
            /\ bib_source' = source
            /\ bibliography' = CitationStylesBibliography(source)
            /\ citeproc_citations' = create_citations_to_register(citations)
            /\ reg' = 0
            /\ pc' = "api"
            /\ UNCHANGED error
    /\ UNCHANGED <<inputs, html_soup, appended, warnings,
                   citations, json_data, spans, s, i, consumed, run, out1,
                   calls>>

ApiRegister ==
    /\ pc = "api"
    /\ reg < Len(citeproc_citations)
    /\ bibliography' = register(bibliography, citeproc_citations[reg + 1])
    /\ reg' = reg + 1
    /\ UNCHANGED <<inputs, html_soup, appended, pc, error,
                   warnings, citations, json_data, bib_source,
                   citeproc_citations, spans, s, i, consumed, run, out1, calls>>

ApiAddCitations ==
    /\ pc = "api"
    /\ calls < MaxCalls
    /\ calls' = calls + 1
    /\ LET st == add_citations(doc, html_soup, citations, i) IN
        /\ html_soup' = st.soup
        /\ i' = st.i
        /\ consumed' = st.consumed
        /\ error' = st.error
        /\ pc' = IF st.error # NoError THEN "failed" ELSE "api"
    /\ spans' = find_all_citation_spans(doc, html_soup)
    /\ s' = Len(spans')
    /\ UNCHANGED <<inputs, appended, warnings, citations,
                   json_data, bib_source, bibliography, citeproc_citations, reg,
                   run, out1>>

ApiAddBibliography ==
    /\ pc = "api"
    /\ calls < MaxCalls
    /\ calls' = calls + 1
    /\ appended' = add_bibliography(appended, bibliography_entries(bibliography))
    /\ UNCHANGED <<inputs, html_soup, pc, error, warnings,
                   citations, json_data, bib_source, bibliography,
                   citeproc_citations, reg, spans, s, i, consumed, run, out1>>

ApiNext ==
    \/ Extract
    \/ ApiSetup
    \/ ApiRegister
    \/ ApiAddCitations
    \/ ApiAddBibliography

ApiSpec == Init /\ [][ApiNext]_vars


(***************************************************************************)
(* What the properties below speak of.                                     *)
(***************************************************************************)
\* The spans whose data-src carries the prefix, in document order.
Qualifying ==
    SelectSeq([n \in DOMAIN doc |-> n],
              LAMBDA n : doc[n].attrs.present /\ doc[n].attrs.prefix)

\* The spans extraction cannot decode: no data-src, or an undecodable payload.
BadMarkers ==
    {n \in DOMAIN doc :
        \/ ~doc[n].attrs.present
        \/ doc[n].attrs.prefix /\ ~doc[n].attrs.decodes}

\* The group behind the k-th qualifying span.
GroupOf(k) == doc[Qualifying[k]].attrs.json

KeysOfGroup(g) == [k \in 1..Len(g.citationItems) |-> g.citationItems[k].itemData.id]

ExtractionErrors == {"KeyError: data-src", "DecodeError"}

\* extract_citations has returned its list.
Extracted == pc # "extract" /\ error \notin ExtractionErrors

\* prepare_citations_for_citeproc has returned its list.
Collected == Extracted /\ pc # "prepare"

SomeReplaced == \E n \in DOMAIN doc : html_soup[n].replaced

\* A marker has been rewritten or the bibliography has been rendered.
RenderingBegun == SomeReplaced \/ appended # <<>> \/ pc = "done"

RECURSIVE ItemsBefore(_)
ItemsBefore(g) ==
    IF g = 1 THEN 0 ELSE Len(citations[g - 1].citationItems) + ItemsBefore(g - 1)

SomeItemLacksId ==
    \E g \in DOMAIN citations : \E k \in DOMAIN citations[g].citationItems :
        citations[g].citationItems[k].itemData.id = NoId

CitedKeys ==
    UNION {{citations[g].citationItems[k].itemData.id :
               k \in DOMAIN citations[g].citationItems} :
           g \in DOMAIN citations} \cap Keys

\* cite(registeredCitation_k) of the style engine, for a style whose text for
\* a key depends on whether a later citation of the document cites it again.
RECURSIVE CiteKeys(_, _, _)
CiteKeys(log, k, j) ==
    IF j > Len(log[k]) THEN ""
    ELSE LET key == log[k][j]
             again == \E h \in (k + 1)..Len(log) : \E m \in DOMAIN log[h] :
                          log[h][m] = key
         in_text == key \o (IF again THEN "a" ELSE "") \o ";"
         IN in_text \o CiteKeys(log, k, j + 1)

cite(bib, k) == "(" \o CiteKeys(bib.log, k, 1) \o ")"

MissingKeys(bib, k) == {bib.log[k][j] : j \in DOMAIN bib.log[k]} \ bib.source

(***************************************************************************)
(* C1.  Whatever has been registered is the groups of the document, in     *)
(* document order; once a marker has been rewritten or the bibliography    *)
(* rendered, every group of the document is registered, and no further     *)
(* registration follows a rendering step.                                  *)
(***************************************************************************)
C1_RegisteredPrefix ==
    \A g \in DOMAIN bibliography.log :
        /\ g <= Len(Qualifying)
        /\ bibliography.log[g] = KeysOfGroup(GroupOf(g))

C1_RegistrationBeforeRendering ==
    /\ [](C1_RegisteredPrefix
          /\ (RenderingBegun => Len(bibliography.log) = Len(Qualifying)))
    /\ [][RenderingBegun => bibliography' = bibliography /\ reg' = reg]_vars

C1_Witness ==
    /\ pc = "done"
    /\ Len(bibliography.log) = 2
    /\ Len(consumed) = 2
    /\ appended # <<>>

(***************************************************************************)
(* C2.  When the run is done, the string of the <cite> that replaced the   *)
(* k-th marker is the engine's cite() of the k-th registered citation;     *)
(* plainCitation stands in only when a key is missing from the source.     *)
(***************************************************************************)
C2_ReplacementIsCiteResult ==
    pc = "done" =>
        \A k \in DOMAIN consumed :
            html_soup[consumed[k].span].string =
                IF MissingKeys(bibliography, k) = {}
                THEN cite(bibliography, k)
                ELSE citations[k].properties.plainCitation

(***************************************************************************)
(* C3.  A marker without data-src, or with an undecodable payload, never   *)
(* ends the run with an exception: the run goes on, and when it is done    *)
(* the marker is untouched and a warning about it is recorded.             *)
(***************************************************************************)
C3_BadMarkerSkipped ==
    /\ error \notin ExtractionErrors
    /\ pc = "done" =>
          \A n \in BadMarkers :
              /\ html_soup[n] = Untouched
              /\ \E w \in DOMAIN warnings : warnings[w].span = n

(***************************************************************************)
(* C4.  After every group was registered and add_citations has run, a      *)
(* group with a key the source lacks has its marker replaced by its        *)
(* plainCitation and exactly one warning for each such key; a group whose  *)
(* keys are all in the source has no warning.                              *)
(***************************************************************************)
WarningsFor(k, key) ==
    {w \in DOMAIN warnings : warnings[w].index = k /\ warnings[w].key = key}

C4_FallbackWithOneWarning ==
    (pc = "api" /\ reg = Len(citeproc_citations)) =>
    \A k \in DOMAIN consumed :
        LET group == citations[consumed[k].index]
            missing == {group.citationItems[j].itemData.id :
                           j \in DOMAIN group.citationItems} \ bib_source
        IN /\ missing # {} =>
                html_soup[consumed[k].span].string = group.properties.plainCitation
           /\ \A key \in Keys :
                Cardinality(WarningsFor(k, key)) = IF key \in missing THEN 1 ELSE 0

(***************************************************************************)
(* C5.  No sequence of calls of the public functions rewrites a marker or  *)
(* appends a bibliography while a created citation is still unregistered.  *)
(***************************************************************************)
C5_NoRenderingBeforeRegistrationClosed ==
    (consumed # <<>> \/ appended # <<>>) => reg = Len(citeproc_citations)

(***************************************************************************)
(* C6.  The groups extract_citations returns are the groups of the         *)
(* qualifying markers in document order; the k-th rewrite is of the k-th   *)
(* qualifying marker and uses group k; the index never passes the number   *)
(* of groups; when the run is done every group has been used once and no   *)
(* qualifying marker is left in the tree.                                  *)
(***************************************************************************)
C6_MarkerGroupCorrespondence ==
    /\ Extracted =>
          /\ Len(citations) = Len(Qualifying)
          /\ \A k \in DOMAIN citations : citations[k] = GroupOf(k)
    /\ \A k \in DOMAIN consumed :
          /\ consumed[k] = [span |-> Qualifying[k], index |-> k]
          /\ html_soup[Qualifying[k]] =
                [replaced |-> TRUE,
                 string |-> GroupOf(k).properties.plainCitation]
    /\ pc \in {"rewrite", "done"} => i = Len(consumed) /\ i <= Len(citations)
    /\ error # "IndexError"
    /\ pc = "done" =>
          /\ Len(consumed) = Len(citations)
          /\ \A n \in DOMAIN doc :
                (~html_soup[n].replaced /\ Attached(doc, html_soup, n))
                    => ~doc[n].attrs.prefix

C6_Witness ==
    /\ pc = "done"
    /\ Len(consumed) = 2
    /\ doc[2].parent = 1
    /\ ~Attached(doc, html_soup, 2)

(***************************************************************************)
(* C7.  Nothing is appended before add_bibliography; with no entries it    *)
(* appends nothing (so a document without qualifying markers comes out as  *)
(* it went in); with K >= 1 entries it appends one div with the heading    *)
(* and an ordered list of the K entries, in the engine's order.            *)
(***************************************************************************)
C7_BibliographyContainer ==
    /\ pc # "done" => appended = <<>>
    /\ pc = "done" =>
          LET entries == bibliography_entries(bibliography) IN
          /\ Len(entries) = Cardinality(CitedKeys)
          /\ entries = <<>> => appended = <<>>
          /\ Qualifying = <<>> => appended = <<>> /\ html_soup = FreshSoup(doc)
          /\ entries # <<>> =>
                /\ Len(appended) = 1
                /\ appended[1].name = "div"
                /\ appended[1].h1 = "Bibliography"
                /\ Len(appended[1].ol) = Len(entries)
                /\ \A k \in DOMAIN entries :
                      appended[1].ol[k] = "<small>" \o entries[k] \o "</small>"

C7_Witness ==
    /\ pc = "done"
    /\ Len(appended) = 1
    /\ Len(appended[1].ol) = 2

(***************************************************************************)
(* C8.  As stated: with an unknown style, a run that fails fails with the  *)
(* style-not-found error.                                                  *)
(***************************************************************************)
C8_FailsWithStyleNotFound ==
    (citation_style \notin KnownStyles /\ pc = "failed") => error = "StyleNotFound"

(***************************************************************************)
(* C8, amended.  With an unknown style the run never gets past the style   *)
(* lookup: no bibliography is built, no group is registered, no marker is  *)
(* rewritten, nothing is appended and the run does not complete.  Its      *)
(* error is the style-not-found error unless extraction or the building of *)
(* the source has failed before the style is looked up.                    *)
(***************************************************************************)
C8_StyleCheckedBeforeRegistration ==
    citation_style \notin KnownStyles =>
        /\ pc \in {"extract", "prepare", "source", "style", "failed"}
        /\ bibliography = NoBibliography
        /\ reg = 0
        /\ ~SomeReplaced
        /\ appended = <<>>
        /\ pc = "failed" =>
              error \in ExtractionErrors \cup {"SourceError", "StyleNotFound"}

C8_Witness ==
    /\ pc = "failed"
    /\ error = "StyleNotFound"
    /\ Len(citations) = 2

(***************************************************************************)
(* C9.  As stated: once prepare_citations_for_citeproc has returned, its   *)
(* result is the concatenation of the records and no item lacks its id     *)
(* (it would have failed otherwise).                                       *)
(***************************************************************************)
C9_Concatenation ==
    /\ Len(json_data) = ItemsBefore(Len(citations) + 1)
    /\ \A g \in DOMAIN citations : \A k \in DOMAIN citations[g].citationItems :
          json_data[ItemsBefore(g) + k] = citations[g].citationItems[k].itemData

C9_CollectFailsOnMissingId ==
    Collected => C9_Concatenation /\ ~SomeItemLacksId

(***************************************************************************)
(* C9, amended.  prepare_citations_for_citeproc returns the concatenation  *)
(* of the records, a record without id included.  When an item lacks its   *)
(* id the run is aborted all the same, before any group is registered and  *)
(* any marker rewritten: by the building of the source, by the style       *)
(* lookup when the style is unknown, or by the KeyError of                 *)
(* create_citations_to_register.                                           *)
(***************************************************************************)
C9_MissingIdAbortsRun ==
    Collected =>
        /\ C9_Concatenation
        /\ SomeItemLacksId =>
              /\ pc \in {"source", "style", "bibliography", "create", "failed"}
              /\ reg = 0
              /\ bibliography.log = <<>>
              /\ ~SomeReplaced
              /\ appended = <<>>
              /\ pc = "failed" =>
                    error \in {"SourceError", "StyleNotFound", "KeyError: id"}
              /\ (pc = "failed" /\ citation_style \in KnownStyles) =>
                    error \in {"SourceError", "KeyError: id"}

C9_Witness ==
    /\ pc = "failed"
    /\ error = "KeyError: id"
    /\ Len(citations) = 2
    /\ Len(json_data) = 3

(***************************************************************************)
(* C10.  The second conversion of a fresh copy of the document ends as the *)
(* first did: same tree, same appended bibliography, same error; and the   *)
(* bibliography of the second conversion holds only what the second        *)
(* conversion registered.                                                  *)
(***************************************************************************)
C10_SecondRunIdentical ==
    run = 2 =>
        /\ pc \in {"done", "failed"} => Output = out1
        /\ pc = "register" => Len(bibliography.log) = reg

C10_Witness ==
    /\ run = 2
    /\ pc = "done"
    /\ Len(consumed) = 2
    /\ appended # <<>>
    /\ Output = out1

====
